---- MODULE Spec2Model ----
(***************************************************************************)
(* Model of qiling/os/uefi/st.py: the static layout of the EFI System      *)
(* Table hierarchy in guest memory (initialize) and the installation of    *)
(* Configuration Table entries (install_configuration_table).              *)
(*                                                                         *)
(* Guest memory is a partial map from addresses to cells.  A structure of  *)
(* sizeof() = n saved at address a occupies the n cells a .. a+n-1; the    *)
(* k-th cell holds <<kind, contents, k>>, so that a structure can be read  *)
(* back only if none of its cells was overwritten.  A payload byte b is    *)
(* the cell <<"data", b, 0>>.                                              *)
(***************************************************************************)
EXTENDS Integers, Sequences, FiniteSets, TLC

VARIABLES
    pc,         \* position of initialize(): the next statement group to run
    profile,    \* ql.os.profile: section name -> section
    sizeof,     \* the sizeof() of the five structures (platform constants)
    gST, gBS, gRT, gDS, cfg, conf_data,     \* locals of initialize()
    efi_conf_table_array,           \* ql.loader.efi_conf_table_array (confs)
    efi_conf_table_array_ptr,       \* ql.loader.efi_conf_table_array_ptr
    efi_conf_table_data_ptr,        \* ql.loader.efi_conf_table_data_ptr
    efi_conf_table_data_next_ptr,   \* ql.loader.efi_conf_table_data_next_ptr
    mem,        \* ql.mem: address -> cell, defined on the written addresses
    call,       \* the most recent install_configuration_table call
    data_writes,    \* history: the ql.mem.write(table, data) issued so far
    ctx,        \* execution contexts that call install_configuration_table
    serialized  \* whether the contexts' calls exclude each other

locals == <<gST, gBS, gRT, gDS, cfg, conf_data>>
loader == <<efi_conf_table_array, efi_conf_table_array_ptr,
            efi_conf_table_data_ptr, efi_conf_table_data_next_ptr>>
threads == <<ctx, serialized>>
vars == <<pc, profile, sizeof, locals, loader, mem, call, data_writes, threads>>

----------------------------------------------------------------------------
(* Bounds of the model *)

\* largest sizeof() drawn for a structure in the layout specification
MaxSize == 2
\* installs with free inputs a guest performs right after bootstrap
MaxGuestInstalls == 2
\* installs with free inputs performed once the array is about to be full
MaxOverflow == 3

(* Program constants *)

\* number of entries the configuration table array leaves room for
CfgCapacity == 100
\* Python's None: a local not yet assigned, or the absent `table' argument
None == -1

----------------------------------------------------------------------------
(* binascii.unhexlify *)

HexDigits == <<"0", "1", "2", "3", "4", "5", "6", "7", "8", "9",
               "a", "b", "c", "d", "e", "f">>
UpperHexDigits == <<"0", "1", "2", "3", "4", "5", "6", "7", "8", "9",
                    "A", "B", "C", "D", "E", "F">>

IsHexDigit(c) == \E i \in 1..16 : HexDigits[i] = c \/ UpperHexDigits[i] = c

HexVal(c) == (CHOOSE i \in 1..16 : HexDigits[i] = c \/ UpperHexDigits[i] = c) - 1

\* a decoder that skips what it cannot decode instead of raising
unhexlify_Lenient(s) ==
    [ok |-> TRUE,
     data |-> [i \in 1..(Len(s) \div 2) |->
                  IF IsHexDigit(s[2 * i - 1]) /\ IsHexDigit(s[2 * i])
                  THEN 16 * HexVal(s[2 * i - 1]) + HexVal(s[2 * i])
                  ELSE 0]]

\* binascii.unhexlify(s): an odd number of digits or a non-hexadecimal digit
\* raises binascii.Error; otherwise each pair of digits gives one byte
unhexlify(s) ==
    IF Len(s) % 2 # 0 \/ (\E i \in 1..Len(s) : ~IsHexDigit(s[i]))
    THEN [ok |-> FALSE, data |-> <<>>]
    ELSE [ok |-> TRUE,
          data |-> [i \in 1..(Len(s) \div 2) |->
                        16 * HexVal(s[2 * i - 1]) + HexVal(s[2 * i])]]

----------------------------------------------------------------------------
(* Guest memory *)

\* ql.mem.write(addr, cells)
MemWrite(m, addr, cells) ==
    [a \in DOMAIN m \cup (addr .. addr + Len(cells) - 1) |->
        IF a >= addr /\ a < addr + Len(cells) THEN cells[a - addr + 1] ELSE m[a]]

\* the cells of a payload
DataCells(data) == [i \in 1..Len(data) |-> <<"data", data[i], 0>>]

\* the cells of a structure of `size' cells: struct.saveTo serialises it
StructCells(kind, contents, size) == [k \in 1..size |-> <<kind, contents, k - 1>>]

\* whether the structure (kind, contents) can be read back at addr
HoldsStruct(m, addr, kind, contents, size) ==
    \A k \in 0..(size - 1) :
        /\ (addr + k) \in DOMAIN m
        /\ m[addr + k][1] = kind
        /\ m[addr + k][3] = k
        /\ m[addr + k][2] = contents

\* whether the payload can be read back at addr
HoldsData(m, addr, data) ==
    \A i \in 1..Len(data) :
        /\ (addr + i - 1) \in DOMAIN m
        /\ m[addr + i - 1][1] = "data"
        /\ m[addr + i - 1][2] = data[i]

\* the writes of a call, applied in order
RECURSIVE ApplyWrites(_, _)
ApplyWrites(m, ws) ==
    IF ws = <<>> THEN m
    ELSE ApplyWrites(MemWrite(m, ws[1].addr, ws[1].cells), Tail(ws))

----------------------------------------------------------------------------
(* The inputs: the profile, the structure sizes, the base address *)

\* profile sections: 'Guid' and, for tables loaded from the profile, 'TableData'
HobGood  == [Guid |-> "hob-guid", hasTableData |-> TRUE,
             TableData |-> <<"a", "a", "B", "B">>]
HobEmpty == [Guid |-> "hob-guid", hasTableData |-> TRUE, TableData |-> <<>>]
HobOdd   == [Guid |-> "hob-guid", hasTableData |-> TRUE,
             TableData |-> <<"a", "a", "b">>]
HobBad   == [Guid |-> "hob-guid", hasTableData |-> TRUE,
             TableData |-> <<"a", "g">>]
DxeSect  == [Guid |-> "dxe-guid", hasTableData |-> FALSE, TableData |-> <<>>]
\* a further section a guest may install; it repeats the HOB_LIST identifier
ExtraGood == [Guid |-> "hob-guid", hasTableData |-> TRUE,
              TableData |-> <<"0", "1", "7", "f", "C", "0">>]
ExtraOdd  == [Guid |-> "hob-guid", hasTableData |-> TRUE, TableData |-> <<"0">>]

Keys == {"HOB_LIST", "DXE_SERVICE_TABLE", "EXTRA_TABLE"}

HobSections == {HobGood, HobEmpty, HobOdd, HobBad}
ExtraSections == {ExtraGood, ExtraOdd}

\* a profile holds any subset of the three sections
Profiles ==
    { [k \in ks |-> CASE k = "HOB_LIST" -> h
                      [] k = "DXE_SERVICE_TABLE" -> DxeSect
                      [] OTHER -> e] :
        ks \in SUBSET Keys, h \in HobSections, e \in ExtraSections }

Structs == {"EFI_SYSTEM_TABLE", "EFI_BOOT_SERVICES", "EFI_RUNTIME_SERVICES",
            "EFI_DXE_SERVICES", "EFI_CONFIGURATION_TABLE"}

\* the sizeof() of the structures: positive, fixed for the session
SizeConfigs ==
    { [s \in Structs |-> 1],
      [EFI_SYSTEM_TABLE |-> 2, EFI_BOOT_SERVICES |-> 3, EFI_RUNTIME_SERVICES |-> 1,
       EFI_DXE_SERVICES |-> 2, EFI_CONFIGURATION_TABLE |-> 3] }

AllSizes == [Structs -> 1..MaxSize]

Bases == {16, 64}

----------------------------------------------------------------------------
(* install_configuration_table and its callee *)

NoCall == [by |-> "none", key |-> "", table |-> None, outcome |-> "none",
           ptr |-> None, writes |-> <<>>]

\* utils.CoreInstallConfigurationTable(ql, guid, table): appends the entry to
\* the list and saves it in the array at the index it got
CoreInstallConfigurationTable(confs, guid, table) ==
    LET entry == [VendorGuid |-> guid, VendorTable |-> table]
        idx == Len(confs)
        ptr == efi_conf_table_array_ptr + idx * sizeof["EFI_CONFIGURATION_TABLE"]
    IN [confs |-> Append(confs, entry),
        write |-> [addr |-> ptr,
                   cells |-> StructCells("EFI_CONFIGURATION_TABLE", entry,
                                         sizeof["EFI_CONFIGURATION_TABLE"])]]

\* a lookup that falls back to an empty section instead of raising
Lookup_Default(key) ==
    [found |-> TRUE,
     section |-> IF key \in DOMAIN profile THEN profile[key]
                 ELSE [Guid |-> "", hasTableData |-> FALSE, TableData |-> <<>>]]

\* line 62: ql.os.profile[key]; a missing section raises KeyError
Lookup(key) ==
    IF key \in DOMAIN profile
    THEN [found |-> TRUE, section |-> profile[key]]
    ELSE [found |-> FALSE, section |-> DxeSect]

\* line 67: the table data is loaded from the profile only without an address
LoadsData(table) == table = None

\* the loaded data always placed at the start of the data space
DataAddress_Base == efi_conf_table_data_ptr

\* line 69: the loaded data is placed at the next free address
DataAddress == efi_conf_table_data_next_ptr

\* the next free address left where it was
AdvancedPtr_Stale(next_ptr, data) == next_ptr

\* line 72: the next free address moves past the data
AdvancedPtr(next_ptr, data) == next_ptr + Len(data)

\* install_configuration_table(ql, key, table): what the call raises or
\* returns, the writes it issues in order, and the loader state it leaves
install_configuration_table(key, table) ==
    LET unchanged(outcome) ==
            [outcome |-> outcome, ptr |-> None, writes |-> <<>>,
             confs |-> efi_conf_table_array,
             next_ptr |-> efi_conf_table_data_next_ptr]
        found == Lookup(key)
    IN  IF ~found.found THEN unchanged("KeyError")
        ELSE LET cfgtable == found.section
                 guid == cfgtable.Guid
             IN  IF LoadsData(table)
                 THEN IF ~cfgtable.hasTableData THEN unchanged("KeyError")
                      ELSE LET dec == unhexlify(cfgtable.TableData)
                           IN  IF ~dec.ok THEN unchanged("binascii.Error")
                               ELSE LET ptr == DataAddress
                                        core == CoreInstallConfigurationTable(
                                                    efi_conf_table_array, guid, ptr)
                                    IN [outcome |-> "ok", ptr |-> ptr,
                                        writes |-> << [addr |-> ptr,
                                                       cells |-> DataCells(dec.data)],
                                                      core.write >>,
                                        confs |-> core.confs,
                                        next_ptr |-> AdvancedPtr(
                                            efi_conf_table_data_next_ptr, dec.data)]
                 ELSE LET core == CoreInstallConfigurationTable(
                                      efi_conf_table_array, guid, table)
                      IN [outcome |-> "ok", ptr |-> table,
                          writes |-> << core.write >>,
                          confs |-> core.confs,
                          next_ptr |-> efi_conf_table_data_next_ptr]

\* a call that also brings the count of a written root record up to date
InstallCall_Resync(by, key, table) ==
    LET r == install_configuration_table(key, table)
        m == ApplyWrites(mem, r.writes)
    IN  /\ efi_conf_table_array' = r.confs
        /\ efi_conf_table_data_next_ptr' = r.next_ptr
        /\ mem' = IF gST \in DOMAIN mem
                  THEN MemWrite(m, gST,
                           StructCells("EFI_SYSTEM_TABLE",
                               [mem[gST][2] EXCEPT !.NumberOfTableEntries = Len(r.confs)],
                               sizeof["EFI_SYSTEM_TABLE"]))
                  ELSE m
        /\ call' = [by |-> by, key |-> key, table |-> table,
                    outcome |-> r.outcome, ptr |-> r.ptr, writes |-> r.writes]
        /\ data_writes' = IF r.outcome = "ok" /\ LoadsData(table)
                          THEN Append(data_writes, r.writes[1])
                          ELSE data_writes
        /\ UNCHANGED <<efi_conf_table_array_ptr, efi_conf_table_data_ptr>>

\* the effect of one call on the loader, the memory and the call record
InstallCall(by, key, table) ==
    LET r == install_configuration_table(key, table)
    IN  /\ efi_conf_table_array' = r.confs
        /\ efi_conf_table_data_next_ptr' = r.next_ptr
        /\ mem' = ApplyWrites(mem, r.writes)
        /\ call' = [by |-> by, key |-> key, table |-> table,
                    outcome |-> r.outcome, ptr |-> r.ptr, writes |-> r.writes]
        /\ data_writes' = IF r.outcome = "ok" /\ LoadsData(table)
                          THEN Append(data_writes, r.writes[1])
                          ELSE data_writes
        /\ UNCHANGED <<efi_conf_table_array_ptr, efi_conf_table_data_ptr>>

----------------------------------------------------------------------------
(* initialize(ql, gST), one action per statement group *)

\* the layout with each table advanced by its own size, not its predecessor's
Plan_OwnSize ==
    /\ pc = "plan"
    /\ gBS' = gST + sizeof["EFI_BOOT_SERVICES"]
    /\ gRT' = gBS' + sizeof["EFI_RUNTIME_SERVICES"]
    /\ gDS' = gRT' + sizeof["EFI_DXE_SERVICES"]
    /\ cfg' = gDS' + sizeof["EFI_CONFIGURATION_TABLE"]
    /\ pc' = "bs"
    /\ UNCHANGED <<gST, conf_data, profile, sizeof, loader, mem, call>>
    /\ UNCHANGED <<data_writes, threads>>

\* lines 77-80: the addresses of the sub-tables and of the array
Plan ==
    /\ pc = "plan"
    /\ gBS' = gST + sizeof["EFI_SYSTEM_TABLE"]
    /\ gRT' = gBS' + sizeof["EFI_BOOT_SERVICES"]
    /\ gDS' = gRT' + sizeof["EFI_RUNTIME_SERVICES"]
    /\ cfg' = gDS' + sizeof["EFI_DXE_SERVICES"]
    /\ pc' = "bs"
    /\ UNCHANGED <<gST, conf_data, profile, sizeof, loader, mem, call>>
    /\ UNCHANGED <<data_writes, threads>>

\* bs/rt/ds.initialize(ql, address): writes a fully populated region at address
SubTableInit(m, kind, address) ==
    MemWrite(m, address, StructCells(kind, "populated", sizeof[kind]))

\* line 89
InitBootServices ==
    /\ pc = "bs"
    /\ mem' = SubTableInit(mem, "EFI_BOOT_SERVICES", gBS)
    /\ pc' = "rt"
    /\ UNCHANGED <<locals, profile, sizeof, loader, call, data_writes, threads>>

\* line 90
InitRuntimeServices ==
    /\ pc = "rt"
    /\ mem' = SubTableInit(mem, "EFI_RUNTIME_SERVICES", gRT)
    /\ pc' = "ds"
    /\ UNCHANGED <<locals, profile, sizeof, loader, call, data_writes, threads>>

\* the DXE services table left unpopulated when the registry is set up
InitDxeServices_Skipped ==
    /\ pc = "ds"
    /\ pc' = "confs"
    /\ UNCHANGED <<locals, profile, sizeof, loader, mem, call, data_writes, threads>>

\* line 91
InitDxeServices ==
    /\ pc = "ds"
    /\ mem' = SubTableInit(mem, "EFI_DXE_SERVICES", gDS)
    /\ pc' = "confs"
    /\ UNCHANGED <<locals, profile, sizeof, loader, call, data_writes, threads>>

\* line 103: the data space follows the room left for the entries
ConfData == cfg + sizeof["EFI_CONFIGURATION_TABLE"] * CfgCapacity

\* lines 94-105: the bookkeeping of the configuration tables
CreateRegistry ==
    /\ pc = "confs"
    /\ efi_conf_table_array' = <<>>
    /\ efi_conf_table_array_ptr' = cfg
    /\ conf_data' = ConfData
    /\ efi_conf_table_data_ptr' = conf_data'
    /\ efi_conf_table_data_next_ptr' = conf_data'
    /\ pc' = "hob"
    /\ UNCHANGED <<gST, gBS, gRT, gDS, cfg, profile, sizeof, mem, call>>
    /\ UNCHANGED <<data_writes, threads>>

\* an exception of a default install swallowed
AfterInstall_Swallow(outcome, next) == next

\* an exception raised by a default install leaves initialize
AfterInstall(outcome, next) == IF outcome = "ok" THEN next ELSE "aborted"

\* line 107
InstallHobList ==
    /\ pc = "hob"
    /\ InstallCall("initialize", "HOB_LIST", None)
    /\ pc' = AfterInstall(call'.outcome, "dxe")
    /\ UNCHANGED <<locals, profile, sizeof, threads>>

\* the DXE services entry pointed at the boot services table
DxeTableAddress_Wrong == gBS

\* the address given for the DXE services table
DxeTableAddress == gDS

\* line 108
InstallDxeServiceTable ==
    /\ pc = "dxe"
    /\ InstallCall("initialize", "DXE_SERVICE_TABLE", DxeTableAddress)
    /\ pc' = AfterInstall(call'.outcome, "st")
    /\ UNCHANGED <<locals, profile, sizeof, threads>>

\* the root record with the count left at its default
SystemTable_NoCount ==
    [RuntimeServices |-> gRT,
     BootServices |-> gBS,
     NumberOfTableEntries |-> 0,
     ConfigurationTable |-> cfg]

\* the root record with the two service pointers exchanged
SystemTable_Swapped ==
    [RuntimeServices |-> gBS,
     BootServices |-> gRT,
     NumberOfTableEntries |-> Len(efi_conf_table_array),
     ConfigurationTable |-> cfg]

\* lines 110-114: the root record
SystemTable ==
    [RuntimeServices |-> gRT,
     BootServices |-> gBS,
     NumberOfTableEntries |-> Len(efi_conf_table_array),
     ConfigurationTable |-> cfg]

\* line 116
WriteSystemTable ==
    /\ pc = "st"
    /\ mem' = MemWrite(mem, gST, StructCells("EFI_SYSTEM_TABLE", SystemTable,
                                             sizeof["EFI_SYSTEM_TABLE"]))
    /\ pc' = "done"
    /\ UNCHANGED <<locals, profile, sizeof, loader, call, data_writes, threads>>

----------------------------------------------------------------------------
(* Installs after bootstrap *)

NumDefaults == 2

\* the call that fills the array: a table that is already in memory
FillEntry == [VendorGuid |-> DxeSect.Guid, VendorTable |-> gDS]

OnlyFilled ==
    \A i \in (NumDefaults + 1)..Len(efi_conf_table_array) :
        efi_conf_table_array[i] = FillEntry

\* The workloads explored: any inputs for the first installs after bootstrap;
\* or the array filled with one repeated install up to its last slot, and any
\* inputs from there.
GuestMay(key, table) ==
    LET n == Len(efi_conf_table_array)
    IN  \/ n < NumDefaults + MaxGuestInstalls
        \/ n >= CfgCapacity - 1 /\ n < CfgCapacity - 1 + MaxOverflow
        \/ /\ n < CfgCapacity - 1
           /\ OnlyFilled
           /\ key = "DXE_SERVICE_TABLE" /\ table = gDS

\* install_configuration_table called once the session runs
GuestInstall(key, table) ==
    /\ pc = "done"
    /\ GuestMay(key, table)
    /\ InstallCall("guest", key, table)
    /\ UNCHANGED <<pc, locals, profile, sizeof, threads>>

----------------------------------------------------------------------------
(* install_configuration_table called from execution contexts, one          *)
(* statement at a time                                                      *)

Contexts == {"A", "B"}

IdleCtx == [at |-> "idle", key |-> "", table |-> None, guid |-> "",
            data |-> <<>>, ptr |-> None, tmp |-> None]

\* the context is not inside a call
Outside(c) == ctx[c].at \in {"idle", "returned", "raised"}

\* with serialized calls a context enters only when no other is inside
MayEnter(c) == serialized => \A d \in Contexts \ {c} : Outside(d)

\* lines 62-68: the lookup and the decoding, which touch no shared state
CtxBegin(c, key, table) ==
    /\ pc = "done"
    /\ ctx[c].at = "idle"
    /\ MayEnter(c)
    /\ LET found == Lookup(key)
           dec == unhexlify(found.section.TableData)
           raises == \/ ~found.found
                     \/ LoadsData(table) /\ ~found.section.hasTableData
                     \/ LoadsData(table) /\ ~dec.ok
       IN  ctx' = [ctx EXCEPT ![c] =
                    IF raises THEN [IdleCtx EXCEPT !.at = "raised", !.key = key,
                                                   !.table = table]
                    ELSE [at |-> IF LoadsData(table) THEN "read" ELSE "core",
                          key |-> key, table |-> table,
                          guid |-> found.section.Guid,
                          data |-> IF LoadsData(table) THEN dec.data ELSE <<>>,
                          ptr |-> table, tmp |-> None]]
    /\ UNCHANGED <<pc, profile, sizeof, locals, loader, mem, call, data_writes,
                   serialized>>

\* line 69: table = ql.loader.efi_conf_table_data_next_ptr
CtxReadPtr(c) ==
    /\ ctx[c].at = "read"
    /\ ctx' = [ctx EXCEPT ![c].ptr = DataAddress, ![c].at = "write"]
    /\ UNCHANGED <<pc, profile, sizeof, locals, loader, mem, call, data_writes,
                   serialized>>

\* line 71: ql.mem.write(table, data)
CtxWrite(c) ==
    /\ ctx[c].at = "write"
    /\ mem' = MemWrite(mem, ctx[c].ptr, DataCells(ctx[c].data))
    /\ data_writes' = Append(data_writes,
                             [addr |-> ctx[c].ptr, cells |-> DataCells(ctx[c].data)])
    /\ ctx' = [ctx EXCEPT ![c].at = "load"]
    /\ UNCHANGED <<pc, profile, sizeof, locals, loader, call, serialized>>

\* line 72, the load of efi_conf_table_data_next_ptr += len(data)
CtxLoad(c) ==
    /\ ctx[c].at = "load"
    /\ ctx' = [ctx EXCEPT ![c].tmp = efi_conf_table_data_next_ptr, ![c].at = "store"]
    /\ UNCHANGED <<pc, profile, sizeof, locals, loader, mem, call, data_writes,
                   serialized>>

\* line 72, the store of efi_conf_table_data_next_ptr += len(data)
CtxStore(c) ==
    /\ ctx[c].at = "store"
    /\ efi_conf_table_data_next_ptr' = AdvancedPtr(ctx[c].tmp, ctx[c].data)
    /\ ctx' = [ctx EXCEPT ![c].at = "core"]
    /\ UNCHANGED <<pc, profile, sizeof, locals, efi_conf_table_array,
                   efi_conf_table_array_ptr, efi_conf_table_data_ptr, mem, call,
                   data_writes, serialized>>

\* line 74: CoreInstallConfigurationTable(ql, guid, table)
CtxCore(c) ==
    /\ ctx[c].at = "core"
    /\ LET core == CoreInstallConfigurationTable(efi_conf_table_array,
                                                 ctx[c].guid, ctx[c].ptr)
       IN  /\ efi_conf_table_array' = core.confs
           /\ mem' = MemWrite(mem, core.write.addr, core.write.cells)
    /\ ctx' = [ctx EXCEPT ![c].at = "returned"]
    /\ UNCHANGED <<pc, profile, sizeof, locals, efi_conf_table_array_ptr,
                   efi_conf_table_data_ptr, efi_conf_table_data_next_ptr, call,
                   data_writes, serialized>>

----------------------------------------------------------------------------
(* Specifications *)

InitState ==
    /\ pc = "plan"
    /\ gST \in Bases
    /\ gBS = None /\ gRT = None /\ gDS = None /\ cfg = None /\ conf_data = None
    /\ efi_conf_table_array = <<>>
    /\ efi_conf_table_array_ptr = None
    /\ efi_conf_table_data_ptr = None
    /\ efi_conf_table_data_next_ptr = None
    /\ mem = <<>>
    /\ call = NoCall
    /\ data_writes = <<>>
    /\ ctx = [c \in Contexts |-> IdleCtx]

Init ==
    /\ InitState
    /\ serialized = TRUE
    /\ profile \in Profiles
    /\ sizeof \in SizeConfigs

Next ==
    \/ Plan
    \/ InitBootServices
    \/ InitRuntimeServices
    \/ InitDxeServices
    \/ CreateRegistry
    \/ InstallHobList
    \/ InstallDxeServiceTable
    \/ WriteSystemTable
    \/ \E key \in Keys, table \in {None, gDS, gBS} : GuestInstall(key, table)

Spec == Init /\ [][Next]_vars

\* the layout alone, for every choice of sizes
InitLayout ==
    /\ InitState
    /\ profile = [k \in Keys |-> IF k = "HOB_LIST" THEN HobGood
                                 ELSE IF k = "DXE_SERVICE_TABLE" THEN DxeSect
                                 ELSE ExtraGood]
    /\ sizeof \in AllSizes
    /\ serialized = TRUE

NextLayout ==
    \/ Plan
    \/ InitBootServices
    \/ InitRuntimeServices
    \/ InitDxeServices
    \/ CreateRegistry

SpecLayout == InitLayout /\ [][NextLayout]_vars

\* bootstrap, then one call from each execution context, the statements of
\* the calls interleaved unless the calls are serialized
InitConcurrent ==
    /\ InitState
    /\ profile = [k \in Keys |-> IF k = "HOB_LIST" THEN HobGood
                                 ELSE IF k = "DXE_SERVICE_TABLE" THEN DxeSect
                                 ELSE ExtraGood]
    /\ sizeof \in SizeConfigs
    /\ serialized \in BOOLEAN

NextConcurrent ==
    \/ Plan
    \/ InitBootServices
    \/ InitRuntimeServices
    \/ InitDxeServices
    \/ CreateRegistry
    \/ InstallHobList
    \/ InstallDxeServiceTable
    \/ WriteSystemTable
    \/ \E c \in Contexts, key \in Keys, table \in {None, gDS} : CtxBegin(c, key, table)
    \/ \E c \in Contexts : CtxReadPtr(c)
    \/ \E c \in Contexts : CtxWrite(c)
    \/ \E c \in Contexts : CtxLoad(c)
    \/ \E c \in Contexts : CtxStore(c)
    \/ \E c \in Contexts : CtxCore(c)

SpecConcurrent == InitConcurrent /\ [][NextConcurrent]_vars

----------------------------------------------------------------------------
(* Reading the state back *)

EntrySize == sizeof["EFI_CONFIGURATION_TABLE"]

\* the address of slot i (from 0) of the on-memory array
SlotAddress(i) == efi_conf_table_array_ptr + i * EntrySize

\* slot i of the on-memory array reads back as entry e
SlotHolds(i, e) == HoldsStruct(mem, SlotAddress(i), "EFI_CONFIGURATION_TABLE", e, EntrySize)

\* slot i reads back as some entry
SlotPopulated(i) ==
    /\ SlotAddress(i) \in DOMAIN mem
    /\ mem[SlotAddress(i)][1] = "EFI_CONFIGURATION_TABLE"
    /\ SlotHolds(i, mem[SlotAddress(i)][2])

\* some cell of the root record has been written
RootWritten ==
    \E a \in DOMAIN mem : mem[a][1] = "EFI_SYSTEM_TABLE"

\* the root record reads back at gST
RootReadable ==
    /\ gST \in DOMAIN mem
    /\ mem[gST][1] = "EFI_SYSTEM_TABLE"
    /\ HoldsStruct(mem, gST, "EFI_SYSTEM_TABLE", mem[gST][2], sizeof["EFI_SYSTEM_TABLE"])

Root == mem[gST][2]

RegistryCreated == pc \in {"hob", "dxe", "st", "done", "aborted"}

\* the step taken from this state is one call of install_configuration_table
InstallStep == pc \in {"hob", "dxe", "done"}

\* initialize has returned and nothing was installed since
JustInitialized == pc = "done" /\ call.by = "initialize"

----------------------------------------------------------------------------
(* C1 *)

\* C1: when initialize(gST) has completed, the NumberOfTableEntries field of
\* the record at gST equals the length of the list, and every slot i below
\* that length of the on-memory array reads back as the i-th list entry.
C1_CountAndArrayAfterInitialize ==
    JustInitialized =>
        /\ RootReadable
        /\ Root.NumberOfTableEntries = Len(efi_conf_table_array)
        /\ \A i \in 1..Len(efi_conf_table_array) :
               SlotHolds(i - 1, efi_conf_table_array[i])

C1_Witness ==
    /\ JustInitialized
    /\ Len(efi_conf_table_array) = NumDefaults
    /\ RootReadable
    /\ Root.NumberOfTableEntries = NumDefaults
    /\ SlotHolds(1, FillEntry)

----------------------------------------------------------------------------
(* C5 *)

\* the cells of the region that starts at `start' and takes `size' cells
Region(start, size) == start .. (start + size - 1)

----------------------------------------------------------------------------
(* C7 *)

\* C7: a default install that raises leaves initialize before the root
\* record is written: the root record is written only once both default
\* entries are in the list, and never after an abort.
C7_NoRootAfterFailedDefault ==
    /\ RootWritten =>
        /\ pc = "done"
        /\ Len(efi_conf_table_array) >= NumDefaults
        /\ efi_conf_table_array[1] =
               [VendorGuid |-> profile["HOB_LIST"].Guid, VendorTable |-> conf_data]
        /\ efi_conf_table_array[2] =
               [VendorGuid |-> profile["DXE_SERVICE_TABLE"].Guid, VendorTable |-> gDS]
    /\ (call.by = "initialize" /\ call.outcome # "ok") =>
        pc = "aborted" /\ ~RootWritten
    /\ pc = "aborted" => ~RootWritten

C7_Witness ==
    /\ pc = "aborted"
    /\ call.key = "DXE_SERVICE_TABLE"
    /\ call.outcome = "KeyError"
    /\ Len(efi_conf_table_array) = 1
    /\ ~RootWritten

----------------------------------------------------------------------------
(* C10 *)

\* C10: the record written at gST points at the Runtime Services table, the
\* Boot Services table and the array at the addresses that were planned and
\* handed to the initializers and to the registry, and its count is the
\* list length at the time of the write.
C10_RootRecordFields ==
    pc = "done" =>
        /\ RootReadable
        /\ Root.RuntimeServices = gRT
        /\ Root.BootServices = gBS
        /\ Root.ConfigurationTable = cfg
        /\ HoldsStruct(mem, Root.RuntimeServices, "EFI_RUNTIME_SERVICES", "populated",
                       sizeof["EFI_RUNTIME_SERVICES"])
        /\ HoldsStruct(mem, Root.BootServices, "EFI_BOOT_SERVICES", "populated",
                       sizeof["EFI_BOOT_SERVICES"])
        /\ Root.ConfigurationTable = efi_conf_table_array_ptr
        /\ JustInitialized => Root.NumberOfTableEntries = Len(efi_conf_table_array)

C10_Witness ==
    /\ JustInitialized
    /\ RootReadable
    /\ Root.RuntimeServices = gST + 5
    /\ Root.BootServices = gST + 2
    /\ Root.ConfigurationTable = gST + 8
    /\ Root.NumberOfTableEntries = 2

----------------------------------------------------------------------------
(* C2 *)

\* C2: whatever installs succeeded, the on-memory array mirrors the list:
\* every slot i below the list length reads back as the i-th list entry and
\* the slot at the list length is not populated.
C2_ArrayMirrorsList ==
    RegistryCreated =>
        /\ \A i \in 1..Len(efi_conf_table_array) :
               SlotHolds(i - 1, efi_conf_table_array[i])
        /\ ~SlotPopulated(Len(efi_conf_table_array))

----------------------------------------------------------------------------
(* C3 *)

\* C3: a successful install without an address, made when the next free
\* address is C and the decoded data has n bytes, issues the write of those n
\* bytes at C, registers the entry with table pointer C and leaves the next
\* free address at C + n; for the data aaBB these are the bytes 0xAA, 0xBB
\* and C + 2.
C3_DataInstall ==
    [][ (InstallStep /\ call'.table = None /\ call'.outcome = "ok") =>
            LET C == efi_conf_table_data_next_ptr
                section == profile[call'.key]
                n == Len(section.TableData) \div 2
            IN  /\ call'.ptr = C
                /\ call'.writes[1].addr = C
                /\ Len(call'.writes[1].cells) = n
                /\ \A a \in C..(C + n - 1) :
                       /\ a \in DOMAIN ApplyWrites(mem, <<call'.writes[1]>>)
                       /\ ApplyWrites(mem, <<call'.writes[1]>>)[a][1] = "data"
                /\ section = HobGood =>
                       call'.writes[1].cells = << <<"data", 170, 0>>, <<"data", 187, 0>> >>
                /\ section = ExtraGood =>
                       call'.writes[1].cells =
                           << <<"data", 1, 0>>, <<"data", 127, 0>>, <<"data", 192, 0>> >>
                /\ efi_conf_table_data_next_ptr' = C + n
                /\ Len(efi_conf_table_array') = Len(efi_conf_table_array) + 1
                /\ efi_conf_table_array'[Len(efi_conf_table_array')] =
                       [VendorGuid |-> section.Guid, VendorTable |-> C]
      ]_vars

C3_Witness ==
    /\ call.by = "guest"
    /\ call.key = "HOB_LIST"
    /\ call.table = None
    /\ call.outcome = "ok"
    /\ call.ptr = conf_data + 2
    /\ call.writes[1] = [addr |-> conf_data + 2,
                         cells |-> << <<"data", 170, 0>>, <<"data", 187, 0>> >>]
    /\ efi_conf_table_data_next_ptr = conf_data + 4

----------------------------------------------------------------------------
(* C4 *)

\* C4: an install with an explicit address leaves the next free address
\* unchanged, issues no write at or above the start of the data region,
\* registers exactly the given address and copies no table data.
C4_ExplicitInstall ==
    [][ (InstallStep /\ call'.table # None /\ call'.outcome = "ok") =>
            /\ efi_conf_table_data_next_ptr' = efi_conf_table_data_next_ptr
            /\ call'.ptr = call'.table
            /\ efi_conf_table_array'[Len(efi_conf_table_array')].VendorTable = call'.table
            /\ \A w \in 1..Len(call'.writes) :
                   /\ call'.writes[w].addr + Len(call'.writes[w].cells)
                          <= efi_conf_table_data_ptr
                   /\ \A c \in 1..Len(call'.writes[w].cells) :
                          call'.writes[w].cells[c][1] # "data"
      ]_vars

----------------------------------------------------------------------------
(* C6 *)

\* C6: the list never holds more than 100 entries: an install attempted
\* with 100 entries in the list appends nothing.
C6_NeverBeyondCapacity ==
    Len(efi_conf_table_array) <= CfgCapacity

----------------------------------------------------------------------------
(* C8 *)

\* C8: an install whose name is not a section of the profile raises the
\* lookup error and leaves the list, the array, the data region and the
\* next free address unchanged.
C8_MissingNameChangesNothing ==
    [][ (InstallStep /\ call'.key \notin DOMAIN profile) =>
            /\ call'.outcome = "KeyError"
            /\ call'.writes = <<>>
            /\ UNCHANGED <<loader, mem>>
      ]_vars

C8_Witness ==
    /\ call.by = "guest"
    /\ call.key = "EXTRA_TABLE"
    /\ call.key \notin DOMAIN profile
    /\ call.table = gDS
    /\ call.outcome = "KeyError"
    /\ Len(efi_conf_table_array) = NumDefaults + 1

----------------------------------------------------------------------------
(* C9 *)

\* the sections whose table data is not a hexadecimal encoding of bytes
MalformedSections == {HobOdd, HobBad, ExtraOdd}

\* C9: an install without an address whose table data is malformed raises
\* the decoding error before anything is written: no write is issued, the
\* next free address does not move, nothing is appended to list or array.
C9_MalformedDataChangesNothing ==
    [][ (/\ InstallStep
         /\ call'.table = None
         /\ call'.key \in DOMAIN profile
         /\ profile[call'.key] \in MalformedSections) =>
            /\ call'.outcome = "binascii.Error"
            /\ call'.writes = <<>>
            /\ UNCHANGED <<loader, mem>>
      ]_vars

C9_Witness ==
    /\ call.by = "guest"
    /\ call.key = "EXTRA_TABLE"
    /\ call.table = None
    /\ "EXTRA_TABLE" \in DOMAIN profile
    /\ profile["EXTRA_TABLE"] = ExtraOdd
    /\ call.outcome = "binascii.Error"
    /\ Len(efi_conf_table_array) = NumDefaults + 1

----------------------------------------------------------------------------
(* C11 *)

\* the three sub-tables read back at their planned addresses
SubTablesPopulated ==
    /\ HoldsStruct(mem, gBS, "EFI_BOOT_SERVICES", "populated", sizeof["EFI_BOOT_SERVICES"])
    /\ HoldsStruct(mem, gRT, "EFI_RUNTIME_SERVICES", "populated",
                   sizeof["EFI_RUNTIME_SERVICES"])
    /\ HoldsStruct(mem, gDS, "EFI_DXE_SERVICES", "populated", sizeof["EFI_DXE_SERVICES"])

HobEntry == [VendorGuid |-> HobGood.Guid, VendorTable |-> conf_data]

\* this step writes a cell of the root record
RootWriteStep ==
    \E a \in gST..(gST + sizeof["EFI_SYSTEM_TABLE"] - 1) :
        /\ a \in DOMAIN mem'
        /\ mem'[a][1] = "EFI_SYSTEM_TABLE"
        /\ a \notin DOMAIN mem

\* C11: in every bootstrap the three sub-tables are populated before the
\* registry is created and before any install, the HOB_LIST install comes
\* before the DXE_SERVICE_TABLE install, and the root record is written
\* once, after both default installs have completed.
C11_BootstrapOrder ==
    [][ /\ (efi_conf_table_array_ptr = None /\ efi_conf_table_array_ptr' # None) =>
               SubTablesPopulated
        /\ call' # call => (SubTablesPopulated /\ RegistryCreated)
        /\ (call' # call /\ call'.by = "initialize" /\ call'.key = "DXE_SERVICE_TABLE") =>
               /\ call.by = "initialize" /\ call.key = "HOB_LIST" /\ call.outcome = "ok"
               /\ efi_conf_table_array = <<HobEntry>>
        /\ (call' # call /\ call'.by = "initialize" /\ call'.key = "HOB_LIST") =>
               call = NoCall
        /\ RootWriteStep =>
               /\ ~RootWritten
               /\ call.by = "initialize" /\ call.key = "DXE_SERVICE_TABLE"
               /\ call.outcome = "ok"
               /\ Len(efi_conf_table_array) = NumDefaults
               /\ pc' = "done"
        /\ RootWritten => (mem'[gST] = mem[gST] /\ pc' = "done")
        /\ pc' = "done" => RootWritten'
      ]_vars

C11_Witness ==
    /\ JustInitialized
    /\ SubTablesPopulated
    /\ RootReadable
    /\ call.key = "DXE_SERVICE_TABLE"
    /\ efi_conf_table_array[1] = HobEntry
    /\ efi_conf_table_array[2] = FillEntry

----------------------------------------------------------------------------
(* C12 *)

\* the bytes the HOB_LIST section of the profile encodes
HobListBytes ==
    IF profile["HOB_LIST"] = HobGood THEN <<170, 187>> ELSE <<>>

\* C12: when initialize has completed, the list holds exactly the HOB_LIST
\* entry, pointing at the start of the data region where the profile data
\* was copied, then the DXE_SERVICE_TABLE entry, pointing at gDS; both are in
\* their array slots; the next free address is the start of the data region
\* plus the length of the HOB_LIST data; the root record counts 2 entries.
C12_DefaultEntries ==
    JustInitialized =>
        /\ efi_conf_table_array =
               << [VendorGuid |-> profile["HOB_LIST"].Guid, VendorTable |-> conf_data],
                  [VendorGuid |-> profile["DXE_SERVICE_TABLE"].Guid, VendorTable |-> gDS] >>
        /\ SlotHolds(0, efi_conf_table_array[1])
        /\ SlotHolds(1, efi_conf_table_array[2])
        /\ HoldsData(mem, conf_data, HobListBytes)
        /\ efi_conf_table_data_next_ptr = conf_data + Len(HobListBytes)
        /\ RootReadable
        /\ Root.NumberOfTableEntries = 2

C12_Witness ==
    /\ JustInitialized
    /\ profile["HOB_LIST"] = HobGood
    /\ Len(efi_conf_table_array) = 2
    /\ HoldsData(mem, conf_data, <<170, 187>>)
    /\ efi_conf_table_data_next_ptr = conf_data + 2
    /\ SlotHolds(1, [VendorGuid |-> "dxe-guid", VendorTable |-> gDS])

----------------------------------------------------------------------------
(* C13 *)

IsPrefix(s, t) == Len(s) <= Len(t) /\ \A i \in 1..Len(s) : s[i] = t[i]

\* slot i reads back in the next state as it does in this one
SlotKept(i) ==
    HoldsStruct(mem', SlotAddress(i), "EFI_CONFIGURATION_TABLE", mem[SlotAddress(i)][2],
                EntrySize)

\* C13: the registry is append-only: every step keeps the list as a prefix
\* of the list it leaves, and an array slot that has been written is not
\* modified by a later install.
C13_AppendOnly ==
    [][ RegistryCreated =>
            /\ IsPrefix(efi_conf_table_array, efi_conf_table_array')
            /\ \A i \in 0..(Len(efi_conf_table_array) - 1) :
                   SlotPopulated(i) => SlotKept(i)
      ]_vars

----------------------------------------------------------------------------
(* C14 *)

RECURSIVE SumLen(_)
SumLen(ws) == IF ws = <<>> THEN 0 ELSE Len(ws[1].cells) + SumLen(Tail(ws))

\* the addresses a data write was handed
Range(w) == w.addr .. (w.addr + Len(w.cells) - 1)

BumpAllocated ==
    /\ efi_conf_table_data_next_ptr = conf_data + SumLen(data_writes)
    /\ \A i, j \in 1..Len(data_writes) :
           i # j => Range(data_writes[i]) \cap Range(data_writes[j]) = {}
    /\ \A i \in 1..Len(data_writes) :
           /\ data_writes[i].addr >= conf_data
           /\ data_writes[i].addr + Len(data_writes[i].cells)
                  <= efi_conf_table_data_next_ptr

\* C14: with installs made one at a time, the next free address is the
\* start of the data region plus the lengths of all data copied so far, it
\* never decreases, and the ranges handed to the data copies are pairwise
\* disjoint and lie between the start of the data region and the next free
\* address.
C14_BumpAllocator ==
    [][ /\ RegistryCreated' => BumpAllocated'
        /\ RegistryCreated =>
               efi_conf_table_data_next_ptr' >= efi_conf_table_data_next_ptr
      ]_vars

C14_Witness ==
    /\ Len(data_writes) = 3
    /\ data_writes[1].addr = conf_data
    /\ data_writes[2].addr = conf_data + 2
    /\ data_writes[3].addr = conf_data + 5
    /\ efi_conf_table_data_next_ptr = conf_data + 7

----------------------------------------------------------------------------
(* C15 *)

\* the data of write w reads back where it was copied
DataIntact(w) ==
    \A i \in 1..Len(w.cells) :
        /\ mem[w.addr + i - 1][1] = "data"
        /\ mem[w.addr + i - 1][2] = w.cells[i][2]

\* C15: whatever the number of installs, every cell of an array entry lies
\* in the room left for the array, below the data region, and the data
\* copied into the data region stays as it was copied.
C15_ArrayStaysBelowData ==
    RegistryCreated =>
        /\ \A a \in DOMAIN mem :
               mem[a][1] = "EFI_CONFIGURATION_TABLE" => (a >= cfg /\ a < conf_data)
        /\ \A i \in 1..Len(data_writes) : DataIntact(data_writes[i])

----------------------------------------------------------------------------
(* C16 *)

\* no context is inside a call
Quiescent == \A c \in Contexts : Outside(c)

\* two data copies of at least one byte were handed the same table pointer
SharedPointer ==
    \E i, j \in 1..Len(data_writes) :
        /\ i # j
        /\ data_writes[i].addr = data_writes[j].addr
        /\ Len(data_writes[i].cells) > 0 /\ Len(data_writes[j].cells) > 0

\* the next free address lags behind the data copied
LostAdvance ==
    Quiescent /\ efi_conf_table_data_next_ptr < conf_data + SumLen(data_writes)

\* C16: when the calls of the execution contexts are serialized, no two data
\* copies share a table pointer and no advance of the next free address is
\* lost; the witness is the state the unserialized interleaving reaches, in
\* which both happen.
C16_SerializedInstallsCompose ==
    (serialized /\ RegistryCreated) => (~SharedPointer /\ ~LostAdvance)

C16_Witness ==
    /\ ~serialized
    /\ \A c \in Contexts : ctx[c].at = "returned" /\ ctx[c].table = None
    /\ ctx["A"].ptr = ctx["B"].ptr
    /\ SharedPointer
    /\ LostAdvance

----------------------------------------------------------------------------
(* C17 *)

\* the root record and the three sub-tables
TablesRegion == gST .. (cfg - 1)

SameCell(x, y) == x[1] = y[1] /\ x[3] = y[3] /\ x[2] = y[2]

\* C17: an install writes only the data at the next free address and one
\* array slot, and changes only the list and the next free address besides:
\* the root record and the sub-tables stay as they were.  So after an install
\* made once initialize has returned, the root record still counts the two
\* bootstrap entries, fewer than the list holds.
C17_InstallLeavesTables ==
    [][ (InstallStep /\ call'.outcome = "ok") =>
            /\ \A a \in TablesRegion :
                   /\ a \in DOMAIN mem' <=> a \in DOMAIN mem
                   /\ a \in DOMAIN mem => SameCell(mem'[a], mem[a])
            /\ \A w \in 1..Len(call'.writes) :
                   \/ call'.writes[w].addr = SlotAddress(Len(efi_conf_table_array))
                   \/ /\ call'.table = None /\ w = 1
                      /\ call'.writes[w].addr = efi_conf_table_data_next_ptr
            /\ UNCHANGED <<efi_conf_table_array_ptr, efi_conf_table_data_ptr, locals>>
            /\ pc = "done" =>
                   /\ RootReadable'
                   /\ mem'[gST][2].NumberOfTableEntries = NumDefaults
                   /\ mem'[gST][2].NumberOfTableEntries < Len(efi_conf_table_array')
      ]_vars

C17_Witness ==
    /\ pc = "done"
    /\ call.by = "guest"
    /\ call.outcome = "ok"
    /\ RootReadable
    /\ Root.NumberOfTableEntries = 2
    /\ Len(efi_conf_table_array) = 4
    /\ SubTablesPopulated

====
